---- MODULE Spec2Model ----
(***************************************************************************)
(* Model of the Meraxes master-file reader, dragons/meraxes/io.py:         *)
(* read_gals (the sharded galaxy table assembler), the three linkage       *)
(* readers read_firstprogenitor_indices, read_nextprogenitor_indices and   *)
(* read_descendant_indices (the index rebasers), read_units,               *)
(* grab_redshift, set_little_h, read_snaplist, read_input_params and       *)
(* read_grid.                                                              *)
(*                                                                         *)
(* The HDF5 master file is the variable `file`; no action changes it.      *)
(* read_gals is modelled statement block by statement block (entry code,   *)
(* one action per iteration of its core loop, exit code); every other      *)
(* operation is one action.  Spec, SpecLinks, SpecAttr, SpecSnap,          *)
(* SpecUnits, SpecSel and SpecLists make one call on one file; SpecSeq     *)
(* makes any sequence of calls, set_little_h among them.  Calls are made   *)
(* with pandas=False and table=False.                                      *)
(***************************************************************************)
EXTENDS Integers, Sequences, FiniteSets, TLC

\* ------------------------------------------------------------------ bounds
\* Value of the file attribute NCores (number of Core<i> shards per snapshot).
NCores == 3
\* Largest number of galaxies a snapshot holds, all cores together.
MaxGals == 4
\* Largest snapshot number that may be present in the file.
MaxSnap == 1
\* Longest `indices` list passed to read_gals.
MaxSel == 3

Cores == 0 .. (NCores - 1)
SnapIds == 0 .. MaxSnap

\* An optional argument: None or Some(x).
None == <<>>
Some(x) == <<x>>
Val(o) == o[1]

VARIABLES
    file,        \* the immutable HDF5 master file
    pc,          \* "idle" (no call made yet) | "loop" (in read_gals's core
                 \* loop) | "end" (after the loop) | "done" (the call exited)
    call,        \* the operation in progress or last finished, with arguments
    rg,          \* read_gals's local variables while it runs
    result,      \* what the last finished operation returned or raised
    openHandles, \* h5.File handles opened by `call` and not closed
    meraxes_h,   \* the module global __meraxes_h: None or Some(h)
    log,         \* the diagnostics `call` has emitted through logger
    past         \* what the caller remembers of the calls made before

vars == <<file, pc, call, rg, result, openHandles, meraxes_h, log, past>>

\* ------------------------------------------------------------ small helpers
Min(a, b) == IF a < b THEN a ELSE b
Max(a, b) == IF a > b THEN a ELSE b

RECURSIVE SumTo(_, _)
\* f[0] + ... + f[n-1]
SumTo(f, n) == IF n <= 0 THEN 0 ELSE SumTo(f, n - 1) + f[n - 1]

RECURSIVE SortedSeq(_)
\* sorted(list(S)) for a finite set of integers
SortedSeq(S) ==
    IF S = {} THEN <<>>
    ELSE LET m == CHOOSE x \in S : \A y \in S : x <= y
         IN  <<m>> \o SortedSeq(S \ {m})

RECURSIVE Insert(_, _)
Insert(x, s) ==
    IF s = <<>> THEN <<x>>
    ELSE IF x <= Head(s) THEN <<x>> \o s
    ELSE <<Head(s)>> \o Insert(x, Tail(s))

RECURSIVE Sort(_)
\* ndarray.sort(): ascending, duplicates kept
Sort(s) == IF s = <<>> THEN <<>> ELSE Insert(Head(s), Sort(Tail(s)))

Range(s) == {s[i] : i \in DOMAIN s}

\* ------------------------------------------------------------- group names
\* A name is the tuple of its characters.
DigitChar == <<"0", "1", "2", "3", "4", "5", "6", "7", "8", "9">>

RECURSIVE Digits(_)
Digits(n) == IF n < 10 THEN <<DigitChar[n + 1]>>
             ELSE Digits(n \div 10) \o <<DigitChar[(n % 10) + 1]>>

RECURSIVE PadLeft(_, _)
PadLeft(s, width) == IF Len(s) >= width THEN s ELSE PadLeft(<<"0">> \o s, width)

\* "%03d" % n  and  "{:03d}".format(n): zero padded to width 3, sign included
Fmt03d(n) == IF n >= 0 THEN PadLeft(Digits(n), 3)
             ELSE <<"-">> \o PadLeft(Digits(0 - n), 2)

\* "Snap%03d" % n
SnapName(n) == <<"S", "n", "a", "p">> \o Fmt03d(n)

\* p.find("Snap") == 0
StartsWithSnap(p) == Len(p) >= 4 /\ SubSeq(p, 1, 4) = <<"S", "n", "a", "p">>

DigitVal(c) == CHOOSE d \in 0 .. 9 : DigitChar[d + 1] = c

RECURSIVE ParseNat(_)
ParseNat(s) == IF s = <<>> THEN 0
               ELSE 10 * ParseNat(SubSeq(s, 1, Len(s) - 1)) + DigitVal(s[Len(s)])

\* int(p[4:])
SnapNumber(p) ==
    LET t == SubSeq(p, 5, Len(p))
    IN  IF t # <<>> /\ Head(t) = "-" THEN 0 - ParseNat(Tail(t)) ELSE ParseNat(t)

\* Top-level groups every master file holds besides the snapshots.
OtherGroups == { <<"U", "n", "i", "t", "s">>,
                 <<"H", "u", "b", "b", "l", "e", "C", "o", "n", "v", "e", "r", "s", "i", "o", "n", "s">>,
                 <<"I", "n", "p", "u", "t", "P", "a", "r", "a", "m", "s">> }

\* ---------------------------------------------------------------- the file
\* file.schema is the field order of the Galaxies records, file.hconv the
\* conversion expressions held by the HubbleConversions group (file.gridconv
\* those of HubbleConversions/Grids), file.params the attributes of the
\* InputParams group, file.lacks the pairs <<n, attribute>> of the
\* attributes that group Snap<n> does not have.
\* file.snaps maps each present snapshot number n (group Snap%03d) to
\*   [NGalaxies |-> attribute, Redshift |-> attribute,
\*    Core |-> [Cores -> [Galaxies, FirstProgenitorIndices,
\*                        NextProgenitorIndices, DescendantIndices]]]
\* each dataset being the sequence of its entries (1-based here, 0-based on
\* disk).

\* list(fin.keys())
Keys(f) == {SnapName(n) : n \in DOMAIN f.snaps} \cup OtherGroups

\* fin[name] succeeds
HasGroup(f, name) == name \in Keys(f)

\* fin["Snap%03d" % n]
SnapGroup(f, n) == f.snaps[n]

\* fin["Snap%03d" % n].attrs[attr] succeeds
HasAttr(f, n, attr) == <<n, attr>> \notin f.lacks

\* snap_group["Core%d/<ds>" % k].size
DsSize(g, k, ds) == Len(g.Core[k][ds])

\* The on-disk Galaxies record j (0-based) of core k in snapshot s.  ID
\* identifies the physical record; CentralGal is the core-local index of
\* the record's central galaxy (here the record before it, the first record
\* being its own central); Mvir is a property that scales with the Hubble
\* constant.
DiskRecord(s, k, j) ==
    [ID |-> <<s, k, j>>, CentralGal |-> IF j = 0 THEN 0 ELSE j - 1,
     Mvir |-> 4 * (j + 1)]

AllFields == {"ID", "CentralGal", "Mvir"}

\* The field order of the compound type of the Galaxies datasets
DefaultSchema == <<"ID", "CentralGal", "Mvir">>
\* The attributes of the HubbleConversions group: the conversion expression
\* of each galaxy property
DefaultConv == [ID |-> "None", CentralGal |-> "None", Mvir |-> "v/h"]

\* Raw (core-local) linkage values a dataset entry may hold: the sentinel -1,
\* local indices, and MaxGals, which is beyond every core.
RawVals == (0 - 1) .. MaxGals

\* NGalaxies minus the number of records really stored: 0 in a sound file, 1
\* in a file whose attribute promises more galaxies than the cores hold.
AttrDeltas == {0, 1}

\* The grids of a snapshot (Snap<n>/Grids/<name>), each flattened
DefaultGrids == [xH |-> <<0, 1>>, deltax |-> <<4, 8>>]
\* HubbleConversions/Grids: xH has no entry
DefaultGridConv == [deltax |-> "v*h"]
\* The attributes of InputParams that read_input_params works on
DefaultParams == [BoxSize |-> 8, PartMass |-> 4, VolumeFactor |-> 1, Hubble_h |-> 2]

\* The master file with snapshots `present`, per-core record counts lay[s]
\* in snapshot s, attribute error delta and, in every linkage dataset, raw
\* value pat[0] at the even local indices and pat[1] at the odd ones.
MakeFile(present, lay, delta, pat) ==
    [schema |-> DefaultSchema,
     hconv |-> DefaultConv,
     gridconv |-> DefaultGridConv,
     params |-> DefaultParams,
     lacks |-> {},
     snaps |->
        [s \in present |->
            LET sz == lay[s]
                links(k) == [j \in 1 .. sz[k] |-> pat[(j - 1) % 2]]
            IN  [NGalaxies |-> Max(0, SumTo(sz, NCores) + delta),
                 Redshift  |-> MaxSnap - s,
                 LTTime    |-> 8 * (s + 1),
                 Grids     |-> DefaultGrids,
                 Core |-> [k \in Cores |->
                     [Galaxies |-> [j \in 1 .. sz[k] |-> DiskRecord(s, k, j - 1)],
                      FirstProgenitorIndices |-> links(k),
                      NextProgenitorIndices  |-> links(k),
                      DescendantIndices      |-> links(k)]]]]]

\* Per-core record counts of a snapshot of at most MaxGals galaxies
Layouts == {L \in [Cores -> 0 .. MaxGals] : SumTo(L, NCores) <= MaxGals}
LinkPatterns == [0 .. 1 -> RawVals]
AllSentinel == [j \in 0 .. 1 |-> 0 - 1]
AllZero == [j \in 0 .. 1 |-> 0]
\* One record in every core but the first
ProbeLayout == [k \in Cores |-> IF k = 0 THEN 0 ELSE 1]

\* Count vector L in the first snapshot, ProbeLayout in the later ones
FirstOnly(L) == [s \in SnapIds |-> IF s = 0 THEN L ELSE ProbeLayout]
\* Count vector L in the even snapshots and L reversed in the odd ones, so
\* that adjacent snapshots have different per-core sizes
Mirrored(L) ==
    [s \in SnapIds |-> [k \in Cores |-> IF s % 2 = 0 THEN L[k] ELSE L[NCores - 1 - k]]]

\* Sound files (NGalaxies is the number of records stored): every count
\* vector in the first snapshot with every snapshot present, and every set
\* of present snapshots for one count vector.
GalsFiles ==
    {MakeFile(SnapIds, FirstOnly(L), 0, AllSentinel) : L \in Layouts}
    \cup {MakeFile(p, FirstOnly(ProbeLayout), 0, pat) :
             p \in SUBSET SnapIds, pat \in {AllSentinel, AllZero}}

\* Sound files with every snapshot present: every count vector, every raw
\* linkage pattern.
LinksFiles ==
    {MakeFile(SnapIds, Mirrored(L), 0, pat) : L \in Layouts, pat \in LinkPatterns}

\* Files whose NGalaxies attribute may exceed the number of records stored.
AttrFiles ==
    {MakeFile(SnapIds, FirstOnly(L), d, AllSentinel) : L \in Layouts, d \in AttrDeltas}

\* Snapshot numbers a file with gaps in its snapshot list may hold
SparseSnapIds == 0 .. (MaxSnap + 2)

\* Sound files holding any set of the snapshots SparseSnapIds, each with the
\* count vector ProbeLayout
SnapFiles ==
    {MakeFile(p, [s \in SparseSnapIds |-> ProbeLayout], 0, AllSentinel) :
        p \in SUBSET SparseSnapIds}

\* Every order of the fields in the record schema
Schemas == {sch \in [1 .. 3 -> AllFields] : Range(sch) = AllFields}

\* HubbleConversions attributes a file may hold: ID always "None"; Mvir and
\* CentralGal each with an expression, "None", or no entry; "v/h.x" is an
\* expression that does not evaluate
ConvTables ==
    {[ID |-> "None"] @@ m @@ c :
        m \in {<<>>} \cup {[Mvir |-> e] : e \in {"v/h", "v*h", "v/h.x", "None"}},
        c \in {<<>>} \cup {[CentralGal |-> e] : e \in {"None", "v*h"}}}

\* Sound files with one count vector, every schema order and every table of
\* conversions
UnitsFiles ==
    {[MakeFile(SnapIds, FirstOnly(ProbeLayout), 0, AllSentinel)
         EXCEPT !.schema = sch, !.hconv = tab] :
        sch \in Schemas, tab \in ConvTables}

\* Sound files whose first snapshot holds MaxSel records, in every count
\* vector
SelFiles ==
    {MakeFile(SnapIds, FirstOnly(L), 0, AllSentinel) :
        L \in {M \in Layouts : SumTo(M, NCores) = MaxSel}}

\* Files holding any set of the snapshots SparseSnapIds, any of which may
\* lack its Redshift or its LTTime attribute
ListFiles ==
    UNION {{[MakeFile(p, [s \in SparseSnapIds |-> ProbeLayout], 0, AllSentinel)
                EXCEPT !.lacks = lk] :
               lk \in SUBSET (p \X {"Redshift", "LTTime"})} :
           p \in SUBSET SparseSnapIds}

\* ------------------------------------------------------ snapshot resolution
\* present_snaps of read_gals and grab_redshift
PresentSnaps(f) == {SnapNumber(p) : p \in {q \in Keys(f) : StartsWithSnap(q)}}

\* Variant of ResolveSnapshot: a negative snapshot is counted back from the
\* number of present snapshots, as if they were numbered 0, 1, 2, ...
ResolveSnapshotContiguous(f, snapshot) ==
    LET s0 == IF snapshot = None THEN 0 - 1 ELSE Val(snapshot)
        n == Cardinality(PresentSnaps(f))
    IN  IF s0 >= 0 THEN [ok |-> TRUE, snapshot |-> s0]
        ELSE IF n + s0 < 0 THEN [ok |-> FALSE, snapshot |-> s0]
        ELSE [ok |-> TRUE, snapshot |-> n + s0]

\* The snapshot number read_gals uses for argument `snapshot`:
\* [ok |-> FALSE] when sorted(present_snaps)[snapshot] raises IndexError.
ResolveSnapshot(f, snapshot) ==
    LET s0 == IF snapshot = None THEN 0 - 1 ELSE Val(snapshot)
        lst == SortedSeq(PresentSnaps(f))
    IN  IF s0 >= 0 THEN [ok |-> TRUE, snapshot |-> s0]
        ELSE IF Len(lst) + s0 < 0 THEN [ok |-> FALSE, snapshot |-> s0]
        ELSE [ok |-> TRUE, snapshot |-> lst[Len(lst) + s0 + 1]]

\* ------------------------------------------------------ read_gals, helpers
\* The fields of the output schema: G.dtype.names
FieldsOf(props) == IF props = None THEN AllFields ELSE Range(Val(props))

\* A record restricted to the fields `names`
Project(r, names) == [n \in names |-> r[n]]

\* The gal_dtype probe: with props=None the first core's dataset gives the
\* dtype; with props given, [tuple(props)][0] raises IndexError on an empty
\* core and the probe moves on.  FALSE when gal_dtype stays None.
DtypeFound(g, props) ==
    IF props = None THEN TRUE
    ELSE \E k \in Cores : DsSize(g, k, "Galaxies") > 0

\* One slot of the output buffer G: its content and how many times the core
\* loop stored a record in it (w = 0: as np.empty left it).
Uninit == [ID |-> <<>>, CentralGal |-> 0, Mvir |-> 0]
EmptySlot(names) == [rec |-> Project(Uninit, names), w |-> 0]

\* np.empty(ngals, dtype=gal_dtype)
NpEmpty(n, names) == [i \in 1 .. n |-> EmptySlot(names)]

\* G[lo:hi] = vals   (lo, hi 0-based, hi - lo = Len(vals))
Store(G, lo, vals) ==
    [i \in DOMAIN G |->
        IF i > lo /\ i <= lo + Len(vals)
        THEN [rec |-> vals[i - lo], w |-> G[i].w + 1]
        ELSE G[i]]

\* Variant of ApplyOffsets: the start of the destination slice is added, not
\* the offset passed.
ApplyOffsetsOutputPosition(G, lo, hi, offset) ==
    [i \in DOMAIN G |->
        IF i > lo /\ i <= hi /\ "CentralGal" \in DOMAIN G[i].rec
        THEN [G[i] EXCEPT !.rec = [@ EXCEPT !.CentralGal = @ + lo]]
        ELSE G[i]]

\* __apply_offsets(G, dest_sel, counter) with dest_sel = [lo:hi]: adds
\* `offset` to CentralGal; the ValueError of a schema without that field is
\* swallowed.
ApplyOffsets(G, lo, hi, offset) ==
    [i \in DOMAIN G |->
        IF i > lo /\ i <= hi /\ "CentralGal" \in DOMAIN G[i].rec
        THEN [G[i] EXCEPT !.rec = [@ EXCEPT !.CentralGal = @ + offset]]
        ELSE G[i]]

\* Variant of DestSel: the slice stops at n, the write cursor not added.
DestSelNoCursor(counter, n) == [lo |-> counter, hi |-> n]

\* np.s_[counter : n + counter]
DestSel(counter, n) == [lo |-> counter, hi |-> n + counter]

\* The length of dest[lo:hi] for a destination of n entries
SliceLen(n, lo, hi) == Max(0, Min(n, hi) - Min(n, lo))

\* Dataset.read_direct(dest, dest_sel=[lo:hi]) of a dataset of `size`
\* entries: the selections must have the same shape, a one-entry dataset
\* being broadcast over the selection; otherwise TypeError.
ReadDirectOk(n, lo, hi, size) == SliceLen(n, lo, hi) = size \/ size = 1

\* The entries read_direct stores at dest[lo:...]
ReadDirectVals(n, lo, hi, data) ==
    IF SliceLen(n, lo, hi) = Len(data) THEN data
    ELSE [i \in 1 .. SliceLen(n, lo, hi) |-> data[1]]

\* Variant of ReadInd: the lower bound of the core's range is exclusive.
ReadIndExclusive(indices, total_read, core_ngals) ==
    LET InCore(x) == (x > total_read) /\ (x < total_read + core_ngals)
        sel == SelectSeq(indices, InCore)
    IN  [i \in 1 .. Len(sel) |-> sel[i] - total_read]

\* read_ind: np.compress keeps the requested indices that fall in the
\* current core, in order; they are then made core-local
ReadInd(indices, total_read, core_ngals) ==
    LET InCore(x) == (x >= total_read) /\ (x < total_read + core_ngals)
        sel == SelectSeq(indices, InCore)
    IN  [i \in 1 .. Len(sel) |-> sel[i] - total_read]

\* galaxies[G.dtype.names][bool_sel]: the records whose local index is in
\* read_ind, once each, in on-disk order
BoolSelect(galaxies, read_ind, names) ==
    LET loc == SortedSeq(Range(read_ind))
    IN  [i \in 1 .. Len(loc) |-> Project(galaxies[loc[i] + 1], names)]

\* G[dest_sel] = vals for a dest_sel of n slots: same length, or one value
\* broadcast to every slot; otherwise ValueError.
AssignOk(n, vals) == Len(vals) = n \/ Len(vals) = 1
AssignVals(n, vals) == IF Len(vals) = n THEN vals ELSE [i \in 1 .. n |-> vals[1]]

NoFrame == [snapshot |-> 0, ngals |-> 0, indices |-> None, names |-> {},
            G |-> <<>>, counter |-> 0, total_read |-> 0, i_core |-> 0,
            visited |-> {}, h |-> None]

NoResult == [status |-> "none", error |-> "", value |-> <<>>, writes |-> <<>>]
Raised(e) == [status |-> "error", error |-> e, value |-> <<>>, writes |-> <<>>]
Returned(v, w) == [status |-> "ok", error |-> "", value |-> v, writes |-> w]

\* ------------------------------------------------------------------- inputs
\* `snapshot` of read_gals: None (the last present snapshot) or a number;
\* MaxSnap + 1 is never present.
SnapArgs == {None} \cup {Some(n) : n \in 0 .. (MaxSnap + 1)}
\* `snapshot` of the linkage readers
LinkSnapArgs == 0 .. (MaxSnap + 1)
\* `snapshot` of grab_redshift
RedshiftSnapArgs == (0 - 2) .. (MaxSnap + 1)
\* `snapshot` of read_gals and grab_redshift on a file with gaps: positions
\* counted from the end, beyond the number of snapshots included
BackSnapArgs == (0 - (MaxSnap + 4)) .. (MaxSnap + 3)
\* `props` of read_gals: every property, or a schema without CentralGal
PropsArgs == {None, Some(<<"ID">>)}
\* Number of records of the snapshot that `snapshot` names in file f, 0 when
\* it names none
SnapTotal(f, snapshot) ==
    LET r == ResolveSnapshot(f, snapshot)
    IN  IF r.ok /\ r.snapshot \in DOMAIN f.snaps
        THEN SumTo([k \in Cores |-> DsSize(f.snaps[r.snapshot], k, "Galaxies")], NCores)
        ELSE 0
\* `indices` of read_gals: None, or an ascending list of at most MaxSel
\* distinct indices into the requested snapshot, the first index beyond its
\* table included
IndicesArgs(f, snapshot) ==
    {None} \cup {Some(SortedSeq(T)) :
                    T \in {U \in SUBSET (0 .. SnapTotal(f, snapshot)) :
                              Cardinality(U) <= MaxSel}}

\* ---------------------------------------------------------------- read_gals
\* A call of operation op with its arguments (None: not passed, or not a
\* parameter of op)
CallOf(op, snapshot, props, indices, h, sim_props) ==
    [op |-> op, snapshot |-> snapshot, props |-> props, indices |-> indices,
     h |-> h, sim_props |-> sim_props]

\* Variant of EffectiveH: without an override, a call made with h=None
\* takes the h of the call made before it.
EffectiveHSticky(h, override) ==
    IF h # None THEN h ELSE IF override # None THEN override ELSE call.h

\* Variant of EffectiveH: the override wins over an explicit h.
EffectiveHOverrideFirst(h, override) == IF override # None THEN override ELSE h

\* if (h is None) and (__meraxes_h is not None): h = __meraxes_h
EffectiveH(h, override) == IF h = None /\ override # None THEN override ELSE h

\* An operation ends by raising e with `handles` file handles still open.
Fail(e, handles) ==
    /\ pc' = "done"
    /\ rg' = NoFrame
    /\ result' = Raised(e)
    /\ openHandles' = handles

\* Variant of NoGalaxies: the test made after ngals was reset to the number
\* of requested indices.
NoGalaxiesAfterReset(snap_group, indices) ==
    (IF indices = None THEN snap_group.NGalaxies ELSE Len(Val(indices))) = 0

\* `if ngals == 0`, tested on the NGalaxies attribute before `indices` is
\* looked at
NoGalaxies(snap_group, indices) == snap_group.NGalaxies = 0

\* read_gals's locals when the core loop is reached
InitialFrame(snapshot, ngals, indices, names) ==
    [snapshot |-> snapshot, ngals |-> ngals, indices |-> indices,
     names |-> names, G |-> NpEmpty(ngals, names), counter |-> 0,
     total_read |-> 0, i_core |-> 0, visited |-> {}, h |-> None]

\* Variant of CallerList: `indices.sort()` sorts the caller's own list.
CallerListSortedInPlace(indices) ==
    IF indices = None THEN None ELSE Some(Sort(Val(indices)))

\* The caller's `indices` object after the call: np.array(indices, "i")
\* copies, so that `indices.sort()` sorts the copy
CallerList(indices) == indices

\* read_gals up to the allocation of G.  read_units has opened and closed
\* its own handle; fin stays open.
ReadGalsCall(snapshot, props, indices, h, sim_props) ==
    /\ pc = "idle"
    /\ call' = CallOf("read_gals", snapshot, props, indices, h, sim_props)
    /\ log' = {}
    /\ past' = [past EXCEPT !.caller_indices = CallerList(indices)]
    /\ UNCHANGED <<file, meraxes_h>>
    /\ LET r == ResolveSnapshot(file, snapshot)
       IN  IF ~r.ok THEN Fail("IndexError: snapshot", 1)
           ELSE IF ~HasGroup(file, SnapName(r.snapshot))
           THEN Fail("KeyError: snapshot", 1)
           ELSE LET snap_group == SnapGroup(file, r.snapshot)
                    sorted == IF indices = None THEN None
                              ELSE Some(Sort(Val(indices)))
                    ngals == IF indices = None THEN snap_group.NGalaxies
                             ELSE Len(Val(sorted))
                IN  IF NoGalaxies(snap_group, indices)
                    THEN Fail("IndexError: no galaxies", 1)
                    ELSE IF ~DtypeFound(snap_group, props)
                    THEN Fail("AttributeError: gal_dtype", 1)
                    ELSE /\ rg' = [InitialFrame(r.snapshot, ngals, sorted,
                                                 FieldsOf(props))
                                    EXCEPT !.h = EffectiveH(h, meraxes_h)]
                         /\ pc' = IF ngals > 0 THEN "loop" ELSE "end"
                         /\ result' = NoResult
                         /\ openHandles' = 1

\* Variant of NextCounter: the write cursor advances by one per core.
NextCounterByOne(counter, n) == counter + 1

\* counter += read_ind.shape[0]
NextCounter(counter, n) == counter + n

\* The body of the core loop for core i_core with dataset `galaxies`:
\* the frame after it, error # "" when it raises.
CoreBody(fr, galaxies) ==
    LET core_ngals == Len(galaxies)
        counter == fr.counter
        total_read == fr.total_read
        seen == [fr EXCEPT !.visited = @ \cup {fr.i_core}]
    IN  IF core_ngals = 0 THEN [error |-> "", frame |-> seen]
        ELSE IF fr.indices = None
        THEN LET dest_sel == DestSel(counter, core_ngals)
             IN
             IF ~ReadDirectOk(fr.ngals, dest_sel.lo, dest_sel.hi, core_ngals)
             THEN [error |-> "TypeError: read_direct", frame |-> seen]
             ELSE LET recs == [j \in 1 .. core_ngals |-> Project(galaxies[j], fr.names)]
                      vals == ReadDirectVals(fr.ngals, dest_sel.lo, dest_sel.hi, recs)
                      G1 == Store(fr.G, Min(fr.ngals, dest_sel.lo), vals)
                      G2 == ApplyOffsets(G1, dest_sel.lo, dest_sel.hi, counter)
                  IN  [error |-> "",
                       frame |-> [seen EXCEPT !.G = G2,
                                              !.counter = counter + core_ngals]]
        ELSE LET read_ind == ReadInd(Val(fr.indices), total_read, core_ngals)
                 n == Len(read_ind)
                 vals == BoolSelect(galaxies, read_ind, fr.names)
             IN  IF n = 0
                 THEN [error |-> "",
                       frame |-> [seen EXCEPT !.total_read = total_read + core_ngals]]
                 ELSE IF ~AssignOk(n, vals)
                 THEN [error |-> "ValueError: broadcast", frame |-> seen]
                 ELSE LET dest_sel == DestSel(counter, n)
                          G1 == Store(fr.G, dest_sel.lo, AssignVals(n, vals))
                          G2 == ApplyOffsets(G1, dest_sel.lo, dest_sel.hi, total_read)
                      IN  [error |-> "",
                           frame |-> [seen EXCEPT !.G = G2,
                                                  !.counter = NextCounter(counter, n),
                                                  !.total_read = total_read + core_ngals]]

\* Variant of LoopDone: no `break`, the loop runs to the last core.
LoopDoneAtRangeEnd(fr) == fr.i_core = NCores - 1

\* The loop stops after this iteration: `break`, or the range is exhausted.
LoopDone(fr) == fr.counter >= fr.ngals \/ fr.i_core = NCores - 1

\* One iteration of `for i_core in range(n_cores)`.
ReadGalsCore ==
    /\ pc = "loop"
    /\ UNCHANGED <<file, call, meraxes_h, log, past>>
    /\ LET galaxies == SnapGroup(file, rg.snapshot).Core[rg.i_core].Galaxies
           out == CoreBody(rg, galaxies)
       IN  IF out.error # "" THEN Fail(out.error, openHandles)
           ELSE /\ pc' = IF LoopDone(out.frame) THEN "end" ELSE "loop"
                /\ rg' = IF LoopDone(out.frame) THEN out.frame
                         ELSE [out.frame EXCEPT !.i_core = @ + 1]
                /\ UNCHANGED <<result, openHandles>>

\* sanitize_dict_strings: re.sub of (\D\.\S*)|(__.*__)|(__) by "" in a
\* conversion expression; of the expressions the files hold only "v/h.x"
\* has a match, "h.x"
Sanitize(conversion) == IF conversion = "v/h.x" THEN "v/" ELSE conversion

\* units["HubbleConversions"] as read_units returns it
HubbleConversions(f) == [p \in DOMAIN f.hconv |-> Sanitize(f.hconv[p])]

\* conversion.lower()
Lower(conversion) == IF conversion = "None" THEN "none" ELSE conversion

\* eval(conversion, dict(v=..., h=h, ...)) returns: the expression parses
EvalOk(conversion) == conversion \in {"v/h", "v*h"}
\* The value eval returns for one entry v
Eval(conversion, v, h) == IF conversion = "v/h" THEN v \div h ELSE v * h

\* gal_dtype.names: the fields of the output records in schema order
NamesOf(f, props) == IF props = None THEN f.schema ELSE Val(props)

RECURSIVE HubbleLoop(_, _, _, _)
\* `for p in gal_dtype.names` from names[i] on.  st.conversion is the local
\* variable `conversion`, None while it is unbound; reading it unbound
\* raises UnboundLocalError.
HubbleLoop(st, names, h_conv, h) ==
    IF st.i > Len(names) THEN [error |-> "", G |-> st.G, log |-> st.log]
    ELSE LET p == names[st.i]
             known == p \in DOMAIN h_conv
             conversion == IF known THEN Some(h_conv[p]) ELSE st.conversion
             log1 == IF known THEN st.log
                     ELSE st.log \cup {<<"warn", "Unrecognised galaxy property", p>>}
         IN  IF conversion = None
             THEN [error |-> "UnboundLocalError: conversion", G |-> st.G, log |-> log1]
             ELSE IF Lower(Val(conversion)) = "none"
             THEN HubbleLoop([i |-> st.i + 1, conversion |-> conversion,
                              G |-> st.G, log |-> log1], names, h_conv, h)
             ELSE IF EvalOk(Val(conversion))
             THEN HubbleLoop(
                      [i |-> st.i + 1, conversion |-> conversion,
                       G |-> [j \in DOMAIN st.G |->
                                 [st.G[j] EXCEPT ![p] = Eval(Val(conversion), @, h)]],
                       log |-> log1], names, h_conv, h)
             ELSE HubbleLoop(
                      [i |-> st.i + 1, conversion |-> conversion, G |-> st.G,
                       log |-> log1 \cup {<<"error", "Failed to parse conversion string", p>>}],
                      names, h_conv, h)

\* `if h is not None:` ... the Hubble scalings applied to the buffer G
HubbleScale(G, names, h_conv, h) ==
    IF h = None THEN [error |-> "", G |-> G, log |-> {}]
    ELSE HubbleLoop([i |-> 1, conversion |-> None, G |-> G, log |-> {}],
                    names, h_conv, Val(h))

\* What np.empty may have left in a slot that was never stored to.
Garbage == {Uninit, DiskRecord(0, 0, 0)}

\* The buffer handed to the caller; a slot never stored to holds `junk`.
Buffer(G, junk, names) ==
    [i \in DOMAIN G |-> IF G[i].w = 0 THEN Project(junk, names) ELSE G[i].rec]

\* The dict read_input_params(fname, h) returns (raw=False); it works out
\* its own effective h from the h it is passed
InputParams(f, h) ==
    LET eff == EffectiveH(h, meraxes_h)
        BoxSize == IF eff # None THEN f.params.BoxSize \div Val(eff)
                   ELSE f.params.BoxSize
        PartMass == IF eff # None THEN f.params.PartMass \div Val(eff)
                    ELSE f.params.PartMass
    IN  [BoxSize |-> BoxSize, PartMass |-> PartMass,
         VolumeFactor |-> f.params.VolumeFactor, Hubble_h |-> f.params.Hubble_h,
         Volume |-> BoxSize * BoxSize * BoxSize * f.params.VolumeFactor]

\* `if sim_props:` properties = read_input_params(fname, h=h), with the
\* snapshot's Redshift added
SimProps(f, snapshot, h) ==
    InputParams(f, h) @@ [Redshift |-> SnapGroup(f, snapshot).Redshift]

\* read_gals after the loop: the Hubble scalings, fin.close() and return G.
ReadGalsReturn ==
    /\ pc = "end"
    /\ UNCHANGED <<file, call, meraxes_h, past>>
    /\ \E junk \in Garbage :
          LET out == HubbleScale(Buffer(rg.G, junk, rg.names),
                                 NamesOf(file, call.props),
                                 HubbleConversions(file), rg.h)
              writes == [i \in DOMAIN rg.G |-> rg.G[i].w]
          IN  /\ log' = out.log
              /\ IF out.error # "" THEN Fail(out.error, openHandles)
                 ELSE IF call.sim_props /\ ~HasAttr(file, rg.snapshot, "Redshift")
                 THEN Fail("KeyError: Redshift", openHandles)
                 ELSE /\ pc' = "done"
                      /\ rg' = NoFrame
                      /\ openHandles' = openHandles - 1
                      /\ result' =
                            IF call.sim_props
                            THEN Returned(<<out.G, SimProps(file, rg.snapshot, rg.h)>>,
                                          writes)
                            ELSE Returned(out.G, writes)

\* ---------------------------------------------------------- linkage readers
\* An operation that holds no frame ends with result r, its `with` block
\* having closed the file.
Finish(op, snapshot, r) ==
    /\ pc = "idle"
    /\ call' = CallOf(op, Some(snapshot), None, None, None, FALSE)
    /\ pc' = "done"
    /\ rg' = NoFrame
    /\ result' = r
    /\ openHandles' = 0
    /\ log' = {}
    /\ UNCHANGED <<file, meraxes_h, past>>

\* Variant of PrevCoreCounter: entry i is the size of Core<i>/Galaxies, so
\* that the cumulative sum includes the core itself.
PrevCoreCounterInclusive(adj_group) ==
    LET sizes == [k \in Cores |-> DsSize(adj_group, k, "Galaxies")]
    IN  [k \in Cores |-> SumTo(sizes, k + 1)]

\* prev_core_counter: entry i + 1 is the size of Core<i>/Galaxies of the
\* adjacent snapshot, then np.cumsum
PrevCoreCounter(adj_group) ==
    LET sizes == [k \in Cores |->
                     IF k = 0 THEN 0 ELSE DsSize(adj_group, k - 1, "Galaxies")]
    IN  [k \in Cores |-> SumTo(sizes, k + 1)]

\* Variant of AddWhereLinked: the offset is added to every value of the
\* slice, the sentinel included.
AddEverywhere(arr, lo, hi, offset) ==
    [i \in DOMAIN arr |-> IF i > lo /\ i <= hi THEN arr[i] + offset ELSE arr[i]]

\* arr[lo:hi][arr[lo:hi] > -1] += offset
AddWhereLinked(arr, lo, hi, offset) ==
    [i \in DOMAIN arr |->
        IF i > lo /\ i <= hi /\ arr[i] > 0 - 1 THEN arr[i] + offset ELSE arr[i]]

\* Variant of Place: the values of a core are stored in reverse order.
PlaceReversed(arr, lo, vals) ==
    [i \in DOMAIN arr |->
        IF i > lo /\ i <= lo + Len(vals) THEN vals[Len(vals) + 1 - (i - lo)]
        ELSE arr[i]]

\* arr[lo:...] = vals
Place(arr, lo, vals) ==
    [i \in DOMAIN arr |-> IF i > lo /\ i <= lo + Len(vals) THEN vals[i - lo] ELSE arr[i]]

RECURSIVE CrossLinkLoop(_, _, _, _, _, _)
\* The core loop of read_firstprogenitor_indices and read_descendant_indices
\* from core i_core on: each core's values are offset by
\* prev_core_counter[i_core].  ok = FALSE when read_direct raises.
CrossLinkLoop(group, ds, prev_core_counter, i_core, counter, ind) ==
    IF i_core = NCores THEN [ok |-> TRUE, ind |-> ind]
    ELSE LET core_nvals == DsSize(group, i_core, ds)
             lo == counter
             hi == core_nvals + counter
         IN  IF core_nvals = 0
             THEN CrossLinkLoop(group, ds, prev_core_counter, i_core + 1, counter, ind)
             ELSE IF ~ReadDirectOk(Len(ind), lo, hi, core_nvals)
             THEN [ok |-> FALSE, ind |-> ind]
             ELSE LET vals == ReadDirectVals(Len(ind), lo, hi, group.Core[i_core][ds])
                      a1 == Place(ind, Min(Len(ind), lo), vals)
                      a2 == AddWhereLinked(a1, lo, hi, prev_core_counter[i_core])
                  IN  CrossLinkLoop(group, ds, prev_core_counter, i_core + 1,
                                    counter + core_nvals, a2)

\* Variant of NextProgOffset: `counter` advanced before the offset is added,
\* as the other two linkage readers order the two statements.
NextProgOffsetAdvanced(counter, core_nvals) == counter + core_nvals

\* The offset read_nextprogenitor_indices adds for a core of core_nvals
\* values: `counter` before it is advanced
NextProgOffset(counter, core_nvals) == counter

RECURSIVE SameSnapLoop(_, _, _, _)
\* The core loop of read_nextprogenitor_indices from core i_core on: each
\* core's values are offset by `counter`, the number of values read so far.
SameSnapLoop(group, i_core, counter, ind) ==
    IF i_core = NCores THEN [ok |-> TRUE, ind |-> ind]
    ELSE LET core_nvals == DsSize(group, i_core, "NextProgenitorIndices")
             lo == counter
             hi == core_nvals + counter
         IN  IF core_nvals = 0
             THEN SameSnapLoop(group, i_core + 1, counter, ind)
             ELSE IF ~ReadDirectOk(Len(ind), lo, hi, core_nvals)
             THEN [ok |-> FALSE, ind |-> ind]
             ELSE LET vals == ReadDirectVals(Len(ind), lo, hi,
                                             group.Core[i_core].NextProgenitorIndices)
                      a1 == Place(ind, Min(Len(ind), lo), vals)
                      a2 == AddWhereLinked(a1, lo, hi, NextProgOffset(counter, core_nvals))
                  IN  SameSnapLoop(group, i_core + 1, counter + core_nvals, a2)

\* np.zeros(n, "i4")
NpZeros(n) == [i \in 1 .. n |-> 0]

\* The result of a linkage loop as the operation's result
LinkResult(out) ==
    IF out.ok THEN Returned(out.ind, <<>>) ELSE Raised("TypeError: read_direct")

\* Variant of ReadFirstProgenitorIndices: a missing previous snapshot is
\* read as offsets of zero.
ReadFirstProgenitorIndicesZeroPrev(snapshot) ==
    IF ~HasGroup(file, SnapName(snapshot))
    THEN Finish("read_firstprogenitor_indices", snapshot, Raised("KeyError: snapshot"))
    ELSE LET snap_group == SnapGroup(file, snapshot)
             prev_core_counter ==
                 IF HasGroup(file, SnapName(snapshot - 1))
                 THEN PrevCoreCounter(SnapGroup(file, snapshot - 1))
                 ELSE [k \in Cores |-> 0]
             fp_ind == NpZeros(snap_group.NGalaxies)
         IN  Finish("read_firstprogenitor_indices", snapshot,
                    LinkResult(CrossLinkLoop(snap_group, "FirstProgenitorIndices",
                                             prev_core_counter, 0, 0, fp_ind)))

\* read_firstprogenitor_indices(fname, snapshot)
ReadFirstProgenitorIndices(snapshot) ==
    IF ~HasGroup(file, SnapName(snapshot)) \/ ~HasGroup(file, SnapName(snapshot - 1))
    THEN Finish("read_firstprogenitor_indices", snapshot, Raised("KeyError: snapshot"))
    ELSE LET snap_group == SnapGroup(file, snapshot)
             prev_snap_group == SnapGroup(file, snapshot - 1)
             fp_ind == NpZeros(snap_group.NGalaxies)
         IN  Finish("read_firstprogenitor_indices", snapshot,
                    LinkResult(CrossLinkLoop(snap_group, "FirstProgenitorIndices",
                                             PrevCoreCounter(prev_snap_group),
                                             0, 0, fp_ind)))

\* read_nextprogenitor_indices(fname, snapshot)
ReadNextProgenitorIndices(snapshot) ==
    IF ~HasGroup(file, SnapName(snapshot))
    THEN Finish("read_nextprogenitor_indices", snapshot, Raised("KeyError: snapshot"))
    ELSE LET snap_group == SnapGroup(file, snapshot)
             np_ind == NpZeros(snap_group.NGalaxies)
         IN  Finish("read_nextprogenitor_indices", snapshot,
                    LinkResult(SameSnapLoop(snap_group, 0, 0, np_ind)))

\* read_descendant_indices(fname, snapshot)
ReadDescendantIndices(snapshot) ==
    IF ~HasGroup(file, SnapName(snapshot)) \/ ~HasGroup(file, SnapName(snapshot + 1))
    THEN Finish("read_descendant_indices", snapshot, Raised("KeyError: snapshot"))
    ELSE LET snap_group == SnapGroup(file, snapshot)
             next_snap_group == SnapGroup(file, snapshot + 1)
             desc_ind == NpZeros(snap_group.NGalaxies)
         IN  Finish("read_descendant_indices", snapshot,
                    LinkResult(CrossLinkLoop(snap_group, "DescendantIndices",
                                             PrevCoreCounter(next_snap_group),
                                             0, 0, desc_ind)))

\* ------------------------------------------------------------ other readers
\* grab_redshift(fname, snapshot)
GrabRedshift(snapshot) ==
    LET r == ResolveSnapshot(file, Some(snapshot))
    IN  IF ~r.ok
        THEN Finish("grab_redshift", snapshot, Raised("IndexError: snapshot"))
        ELSE IF ~HasGroup(file, SnapName(r.snapshot))
        THEN Finish("grab_redshift", snapshot, Raised("KeyError: snapshot"))
        ELSE IF ~HasAttr(file, r.snapshot, "Redshift")
        THEN Finish("grab_redshift", snapshot, Raised("KeyError: Redshift"))
        ELSE Finish("grab_redshift", snapshot,
                    Returned(<<SnapGroup(file, r.snapshot).Redshift>>, <<>>))

\* read_units(fname): opens the file, reads the Units and HubbleConversions
\* groups, closes the file.
ReadUnits ==
    /\ pc = "idle"
    /\ call' = CallOf("read_units", None, None, None, None, FALSE)
    /\ pc' = "done"
    /\ rg' = NoFrame
    /\ result' = Returned(<<"Units", "HubbleConversions">>, <<>>)
    /\ openHandles' = 1 - 1
    /\ log' = {}
    /\ UNCHANGED <<file, meraxes_h, past>>

\* A reader that runs in one step ends with result r, having emitted the
\* diagnostics lg and closed its file.
Done(c, r, lg) ==
    /\ pc = "idle"
    /\ call' = c
    /\ pc' = "done"
    /\ rg' = NoFrame
    /\ result' = r
    /\ openHandles' = 0
    /\ log' = lg
    /\ UNCHANGED <<file, meraxes_h, past>>

\* set_little_h: `if h == 1.0: h = None`, the value then stored and returned
StoredH(h) == IF h = 1 THEN None ELSE Some(h)

\* set_little_h(h) with a number h
SetLittleH(h) ==
    /\ pc = "idle"
    /\ call' = CallOf("set_little_h", None, None, None, Some(h), FALSE)
    /\ meraxes_h' = StoredH(h)
    /\ result' = Returned(<<StoredH(h)>>, <<>>)
    /\ pc' = "done"
    /\ rg' = NoFrame
    /\ openHandles' = 0
    /\ log' = {}
    /\ past' = [past EXCEPT !.last_h = Some(h)]
    /\ UNCHANGED file

\* list(fin.keys()): the top-level groups in name order
KeyList(f) ==
    LET nums == SortedSeq(DOMAIN f.snaps)
    IN  << <<"H", "u", "b", "b", "l", "e", "C", "o", "n", "v", "e", "r", "s", "i", "o", "n", "s">>,
           <<"I", "n", "p", "u", "t", "P", "a", "r", "a", "m", "s">> >>
        \o [i \in 1 .. Len(nums) |-> SnapName(nums[i])]
        \o << <<"U", "n", "i", "t", "s">> >>

\* fin[key].attrs[attr] succeeds: only snapshot groups have Redshift and
\* LTTime
KeyHasAttr(f, key, attr) ==
    /\ key \notin OtherGroups
    /\ HasAttr(f, SnapNumber(key), attr)

\* int(snap[-3:])
Last3Number(key) == ParseNat(SubSeq(key, Len(key) - 2, Len(key)))

RECURSIVE SnaplistLoop(_, _, _, _)
\* `for snap in list(fin.keys())` from keys[i] on: the three appends of the
\* try block in their order, a KeyError ending the block
SnaplistLoop(f, keys, i, acc) ==
    IF i > Len(keys) THEN acc
    ELSE LET snap == keys[i]
             g == SnapGroup(f, SnapNumber(snap))
         IN  IF ~KeyHasAttr(f, snap, "Redshift")
             THEN SnaplistLoop(f, keys, i + 1, acc)
             ELSE LET acc1 == [acc EXCEPT !.zlist = Append(@, g.Redshift),
                                          !.snaplist = Append(@, Last3Number(snap))]
                  IN  IF ~KeyHasAttr(f, snap, "LTTime")
                      THEN SnaplistLoop(f, keys, i + 1, acc1)
                      ELSE SnaplistLoop(f, keys, i + 1,
                               [acc1 EXCEPT !.lt_times = Append(@, g.LTTime)])

\* lt_times /= h
DivideBy(values, h) == [i \in DOMAIN values |-> values[i] \div h]

\* read_snaplist(fname, h): (snaplist, zlist, lt_times)
ReadSnaplist(h) ==
    LET eff == EffectiveH(h, meraxes_h)
        acc == SnaplistLoop(file, KeyList(file), 1,
                            [zlist |-> <<>>, snaplist |-> <<>>, lt_times |-> <<>>])
        lt_times == IF eff # None THEN DivideBy(acc.lt_times, Val(eff))
                    ELSE acc.lt_times
    IN  Done(CallOf("read_snaplist", None, None, None, h, FALSE),
             Returned(<<acc.snaplist, acc.zlist, lt_times>>, <<>>), {})

\* read_input_params(fname, h)
ReadInputParams(h) ==
    Done(CallOf("read_input_params", None, None, None, h, FALSE),
         Returned(<<InputParams(file, h)>>, <<>>), {})

\* read_grid(fname, snapshot, name, h).  `grid` stays unbound when the
\* dataset Snap<n>/Grids/<name> does not exist; eval with an unbound grid
\* raises inside the try block, `grid.shape = ...` raises to the caller.
ReadGrid(snapshot, name, h) ==
    LET eff == EffectiveH(h, meraxes_h)
        found == /\ HasGroup(file, SnapName(snapshot))
                 /\ name \in DOMAIN SnapGroup(file, snapshot).Grids
        grid == IF found THEN Some(SnapGroup(file, snapshot).Grids[name]) ELSE None
        log0 == IF found THEN {} ELSE {<<"error", "No grid called", name>>}
        h_conv == [n \in DOMAIN file.gridconv |-> Sanitize(file.gridconv[n])]
        known == name \in DOMAIN h_conv
        conversion == IF known THEN h_conv[name] ELSE "None"
        log1 == IF eff # None /\ ~known
                THEN log0 \cup {<<"warn", "Unknown scaling for grid", name>>}
                ELSE log0
        scale == eff # None /\ Lower(conversion) # "none"
        evaluated == EvalOk(conversion) /\ grid # None
        scaled == IF scale /\ evaluated
                  THEN Some([i \in DOMAIN Val(grid) |->
                                Eval(conversion, Val(grid)[i], Val(eff))])
                  ELSE grid
        log2 == IF scale /\ ~evaluated
                THEN log1 \cup {<<"error", "Failed to parse conversion string", name>>}
                ELSE log1
        c == CallOf("read_grid", Some(snapshot), Some(<<name>>), None, h, FALSE)
    IN  IF scaled = None THEN Done(c, Raised("UnboundLocalError: grid"), log2)
        ELSE Done(c, Returned(<<Val(scaled)>>, <<>>), log2)

\* ------------------------------------------------------------ specification
NoCall == CallOf("none", None, None, None, None, FALSE)
\* Nothing remembered: no earlier call kept, set_little_h never called
NoPast == [kept |-> None, last_h |-> None, caller_indices |-> None]

\* The h values passed to set_little_h and to the readers: 1 is h = 1.0
HVals == {1, 2}
HArgs == {None} \cup {Some(x) : x \in HVals}

\* The caller takes the result of the call that has exited and goes on to
\* its next call; it may keep the call, its result and the override that
\* was in effect, when it has kept none yet.
Again ==
    /\ pc = "done"
    /\ pc' = "idle"
    /\ \/ UNCHANGED past
       \/ /\ past.kept = None
          /\ past' = [past EXCEPT !.kept = Some([call |-> call, result |-> result,
                                                  override |-> meraxes_h])]
    /\ UNCHANGED <<file, call, rg, result, openHandles, meraxes_h, log>>

InitWith(files) ==
    /\ file \in files
    /\ pc = "idle"
    /\ call = NoCall
    /\ rg = NoFrame
    /\ result = NoResult
    /\ openHandles = 0
    /\ meraxes_h = None
    /\ log = {}
    /\ past = NoPast

Init == InitWith(GalsFiles)

InitLinks == InitWith(LinksFiles)

InitAttr == InitWith(AttrFiles)

ReadGals ==
    /\ pc = "idle"
    /\ \E snapshot \in SnapArgs, props \in PropsArgs :
           \E indices \in IndicesArgs(file, snapshot) :
               ReadGalsCall(snapshot, props, indices, None, FALSE)

FirstProgenitor == pc = "idle" /\ \E snapshot \in LinkSnapArgs : ReadFirstProgenitorIndices(snapshot)
NextProgenitor == pc = "idle" /\ \E snapshot \in LinkSnapArgs : ReadNextProgenitorIndices(snapshot)
Descendant == pc = "idle" /\ \E snapshot \in LinkSnapArgs : ReadDescendantIndices(snapshot)
Redshift == pc = "idle" /\ \E snapshot \in RedshiftSnapArgs : GrabRedshift(snapshot)

\* read_gals(fname, snapshot) with any snapshot argument
ReadGalsBack ==
    /\ pc = "idle"
    /\ \E snapshot \in {None} \cup {Some(n) : n \in BackSnapArgs} :
           ReadGalsCall(snapshot, None, None, None, FALSE)

RedshiftBack == pc = "idle" /\ \E snapshot \in BackSnapArgs : GrabRedshift(snapshot)

Next ==
    \/ ReadGals
    \/ ReadGalsCore
    \/ ReadGalsReturn
    \/ FirstProgenitor
    \/ NextProgenitor
    \/ Descendant
    \/ Redshift
    \/ ReadUnits

NextLinks ==
    \/ FirstProgenitor
    \/ NextProgenitor
    \/ Descendant

\* Every reader, on the files of the galaxy table assembler.
Spec == Init /\ [][Next]_vars

\* The three linkage readers, on files with every raw linkage pattern.
SpecLinks == InitLinks /\ [][NextLinks]_vars

\* Every reader, on files whose NGalaxies attribute may be too large.
SpecAttr == InitAttr /\ [][Next]_vars

\* One sound file, every snapshot with the count vector ProbeLayout
SeqFiles == {MakeFile(SnapIds, [s \in SnapIds |-> ProbeLayout], 0, AllSentinel)}

InitSeq == InitWith(SeqFiles)

\* The grid names asked for: two that exist, one that does not
GridNames == {"xH", "deltax", "nogrid"}

SetH == pc = "idle" /\ \E h \in HVals : SetLittleH(h)

\* read_gals(fname, 0, h=h, sim_props=sim_props)
ReadGalsH ==
    /\ pc = "idle"
    /\ \E h \in HArgs, sim_props \in BOOLEAN :
           ReadGalsCall(Some(0), None, None, h, sim_props)

Snaplist == pc = "idle" /\ \E h \in HArgs : ReadSnaplist(h)
Params == pc = "idle" /\ \E h \in HArgs : ReadInputParams(h)
Grid ==
    /\ pc = "idle"
    /\ \E snapshot \in {0, MaxSnap + 1}, name \in GridNames, h \in HArgs :
           ReadGrid(snapshot, name, h)

NextSeq ==
    \/ SetH
    \/ ReadGalsH
    \/ ReadGalsCore
    \/ ReadGalsReturn
    \/ Snaplist
    \/ Params
    \/ Grid
    \/ NextProgenitor
    \/ Again

\* Any sequence of calls of set_little_h and of the readers on one file.
SpecSeq == InitSeq /\ [][NextSeq]_vars

InitSnap == InitWith(SnapFiles)

NextSnap ==
    \/ ReadGalsBack
    \/ ReadGalsCore
    \/ ReadGalsReturn
    \/ RedshiftBack

InitUnits == InitWith(UnitsFiles)

\* read_gals(fname, 0, h=h)
ReadGalsUnits ==
    /\ pc = "idle"
    /\ \E h \in HArgs : ReadGalsCall(Some(0), None, None, h, FALSE)

NextUnits ==
    \/ ReadGalsUnits
    \/ ReadGalsCore
    \/ ReadGalsReturn

\* read_gals with an explicit h on files of every schema order and
\* conversion table.
SpecUnits == InitUnits /\ [][NextUnits]_vars

InitSel == InitWith(SelFiles)

\* `indices` in any order and with repeats: every list of at most MaxSel
\* indices into a table of n records
AnyOrderArgs(n) ==
    {Some(L) : L \in UNION {[1 .. m -> 0 .. (n - 1)] : m \in 0 .. MaxSel}}

\* read_gals(fname, 0, indices=L)
ReadGalsSel ==
    /\ pc = "idle"
    /\ \E indices \in AnyOrderArgs(SnapTotal(file, Some(0))) :
           ReadGalsCall(Some(0), None, indices, None, FALSE)

NextSel ==
    \/ ReadGalsSel
    \/ ReadGalsCore
    \/ ReadGalsReturn

\* read_gals with index lists in any order, repeats included.
SpecSel == InitSel /\ [][NextSel]_vars

InitLists == InitWith(ListFiles)

NextLists ==
    \/ Snaplist
    \/ RedshiftBack

\* read_snaplist and grab_redshift on files whose snapshot groups may lack
\* attributes.
SpecLists == InitLists /\ [][NextLists]_vars

\* read_gals and grab_redshift with any snapshot argument, on files with
\* gaps in their snapshot list.
SpecSnap == InitSnap /\ [][NextSnap]_vars

\* ------------------------------------------------- vocabulary of the claims
\* Number of records of Core<k>/Galaxies in snapshot s
Count(s, k) == DsSize(file.snaps[s], k, "Galaxies")
\* Prefix offset of core k in snapshot s: records held by cores 0 .. k-1
PrefixOffset(s, k) == SumTo([i \in Cores |-> Count(s, i)], k)
\* Number of records of snapshot s
Total(s) == PrefixOffset(s, NCores)
Present(s) == s \in DOMAIN file.snaps
\* The largest present snapshot number
LastPresent == CHOOSE m \in DOMAIN file.snaps : \A n \in DOMAIN file.snaps : n <= m
\* The snapshot a finished read_gals call asked for
Asked == IF call.snapshot = None THEN LastPresent ELSE Val(call.snapshot)
\* A read_gals call has exited and its snapshot's group exists
GalsDoneOn(s) ==
    /\ pc = "done"
    /\ call.op = "read_gals"
    /\ (call.snapshot = None => DOMAIN file.snaps # {})
    /\ s = Asked
    /\ Present(s)
IsAscending(S) == \A i \in 1 .. (Len(S) - 1) : S[i] < S[i + 1]

RECURSIVE RunCoreLoop(_, _)
\* The core loop of read_gals run to its end from frame fr
RunCoreLoop(fr, snap_group) ==
    LET out == CoreBody(fr, snap_group.Core[fr.i_core].Galaxies)
    IN  IF out.error # "" \/ LoopDone(out.frame) THEN out
        ELSE RunCoreLoop([out.frame EXCEPT !.i_core = @ + 1], snap_group)

\* The table read_gals(indices=None) assembles for snapshot s with output
\* fields `names`
FullTable(s, names) ==
    LET g == file.snaps[s]
        out == RunCoreLoop(InitialFrame(s, g.NGalaxies, None, names), g)
    IN  Buffer(out.frame.G, Uninit, names)

\* ------------------------------------------------------------------ claims

\* C1 (P1, conservation): read_gals with indices=None on a snapshot whose
\* cores hold N > 0 records returns exactly N records, and for every core k
\* the output record at position PrefixOffset(k) + j is core k's on-disk
\* record j (every field the reader copies unchanged).
C1_Conservation ==
    \A s \in SnapIds :
        (GalsDoneOn(s) /\ call.indices = None /\ Total(s) > 0) =>
            /\ result.status = "ok"
            /\ Len(result.value) = Total(s)
            /\ \A k \in Cores : \A j \in 0 .. (Count(s, k) - 1) :
                  result.value[PrefixOffset(s, k) + j + 1].ID = DiskRecord(s, k, j).ID

\* The layout of Scenario A in small, core sizes [2, 0, 2]: core 0 at [0:2],
\* core 2 at [2:4].
C1_Witness ==
    \E s \in SnapIds :
        /\ GalsDoneOn(s) /\ call.indices = None /\ result.status = "ok"
        /\ Count(s, 0) = 2 /\ Count(s, 1) = 0 /\ Count(s, 2) = 2
        /\ Len(result.value) = 4
        /\ result.value[2].ID = <<s, 0, 1>>
        /\ result.value[3].ID = <<s, 2, 0>>

\* C2 (P4, selection correctness): for an ascending list S of distinct
\* indices within [0, N), read_gals(indices=S) returns Len(S) records, the
\* record at output position j being the record of the full table at global
\* position S[j], CentralGal included.
C2_SelectionCorrect ==
    \A s \in SnapIds :
        (/\ GalsDoneOn(s) /\ call.indices # None /\ Total(s) > 0
         /\ IsAscending(Val(call.indices))
         /\ \A x \in Range(Val(call.indices)) : x >= 0 /\ x < Total(s)) =>
            LET S == Val(call.indices)
                full == FullTable(s, FieldsOf(call.props))
            IN  /\ result.status = "ok"
                /\ Len(result.value) = Len(S)
                /\ \A j \in 1 .. Len(S) : result.value[j] = full[S[j] + 1]

\* Scenario D in small, selection [0, 1, 3] over core sizes [2, 0, 2]: the
\* two records of core 0, then, past the empty core 1, local record 1 of
\* core 2, whose CentralGal is rebased by the core's prefix offset 2.
C2_Witness ==
    \E s \in SnapIds :
        /\ GalsDoneOn(s) /\ call.props = None /\ result.status = "ok"
        /\ Count(s, 0) = 2 /\ Count(s, 1) = 0 /\ Count(s, 2) = 2
        /\ call.indices = Some(<<0, 1, 3>>)
        /\ result.value[1].ID = <<s, 0, 0>>
        /\ result.value[2].ID = <<s, 0, 1>>
        /\ result.value[3] = [ID |-> <<s, 2, 1>>, CentralGal |-> 2, Mvir |-> 8]

\* C7 (Scenario C, EmptySnapshot): read_gals on a snapshot whose NGalaxies
\* is 0 raises "no galaxies" whatever props and indices are, and an empty
\* selection on a snapshot with NGalaxies > 0 returns a zero-length buffer.
C7_EmptySnapshot ==
    \A s \in SnapIds :
        GalsDoneOn(s) =>
            /\ file.snaps[s].NGalaxies = 0 =>
                  result = Raised("IndexError: no galaxies")
            /\ (file.snaps[s].NGalaxies > 0 /\ call.indices = Some(<<>>)) =>
                  (result.status = "ok" /\ result.value = <<>>)

\* An empty selection answered with an empty buffer.
C7_Witness ==
    \E s \in SnapIds :
        /\ GalsDoneOn(s) /\ file.snaps[s].NGalaxies > 0
        /\ call.indices = Some(<<>>)
        /\ result.status = "ok" /\ result.value = <<>>

\* An empty snapshot refused, for a non-empty selection and restricted props.
C7_WitnessEmptySnapshot ==
    \E s \in SnapIds :
        /\ GalsDoneOn(s) /\ file.snaps[s].NGalaxies = 0
        /\ call.indices # None /\ call.indices # Some(<<>>) /\ call.props # None
        /\ result.status = "error"

\* C8 (assembler postcondition): every slot of a returned buffer was stored
\* to exactly once, and a request for more galaxies than the file holds (an
\* index outside [0, N), or NGalaxies above the number of records stored) is
\* an error.
C8_EverySlotWrittenOnce ==
    \A s \in SnapIds :
        GalsDoneOn(s) =>
            /\ result.status = "ok" =>
                  \A i \in DOMAIN result.writes : result.writes[i] = 1
            /\ (\/ /\ call.indices = None
                   /\ file.snaps[s].NGalaxies > Total(s)
                \/ /\ call.indices # None
                   /\ \E x \in Range(Val(call.indices)) : x < 0 \/ x >= Total(s)) =>
                  result.status = "error"

\* C9 (resource closure): when a read operation has exited, by return or by
\* exception, every file handle it opened is closed.
C9_HandlesClosedOnExit == pc = "done" => openHandles = 0

\* C10 (missing snapshot): read_gals and the linkage readers raise when the
\* group of the requested snapshot does not exist;
\* read_firstprogenitor_indices raises when Snap(snapshot - 1) does not
\* exist and read_descendant_indices when Snap(snapshot + 1) does not,
\* whatever the linkage datasets hold.
C10_MissingSnapshotFails ==
    LET LinkOps == {"read_firstprogenitor_indices", "read_nextprogenitor_indices",
                    "read_descendant_indices"}
    IN  pc = "done" =>
          /\ (/\ call.op = "read_gals"
              /\ (call.snapshot = None \/ ~Present(Val(call.snapshot)))
              /\ (call.snapshot # None \/ DOMAIN file.snaps = {})) =>
                (result.status = "error" /\ result.value = <<>>)
          /\ (call.op \in LinkOps /\ ~Present(Val(call.snapshot))) =>
                (result.status = "error" /\ result.value = <<>>)
          /\ (call.op = "read_firstprogenitor_indices"
                 /\ ~Present(Val(call.snapshot) - 1)) =>
                (result.status = "error" /\ result.value = <<>>)
          /\ (call.op = "read_descendant_indices"
                 /\ ~Present(Val(call.snapshot) + 1)) =>
                (result.status = "error" /\ result.value = <<>>)

\* Snapshot 0 exists and holds linkage values other than -1, and its first
\* progenitors are refused because there is no snapshot before it.
C10_Witness ==
    /\ pc = "done" /\ call.op = "read_firstprogenitor_indices"
    /\ call.snapshot = Some(0) /\ Present(0)
    /\ \E k \in Cores :
          /\ Count(0, k) > 0
          /\ file.snaps[0].Core[k].FirstProgenitorIndices[1] > 0 - 1
    /\ result.status = "error"

\* ---------------------------------------------------- claims, linkage readers
LinkDataset ==
    [read_firstprogenitor_indices |-> "FirstProgenitorIndices",
     read_nextprogenitor_indices  |-> "NextProgenitorIndices",
     read_descendant_indices      |-> "DescendantIndices"]
\* The snapshot whose table the values of a linkage reader index
LinkTarget(op, s) ==
    IF op = "read_firstprogenitor_indices" THEN s - 1
    ELSE IF op = "read_descendant_indices" THEN s + 1
    ELSE s
\* Linkage reader op has returned for snapshot s
LinkReturned(op, s) ==
    /\ pc = "done"
    /\ call.op = op
    /\ call.snapshot = Some(s)
    /\ result.status = "ok"
\* The raw on-disk value j (0-based) of core k in the dataset op reads
Raw(op, s, k, j) == file.snaps[s].Core[k][LinkDataset[op]][j + 1]
\* The returned value for entry j of core k: core k's values follow those of
\* cores 0 .. k-1
Out(s, k, j) == result.value[PrefixOffset(s, k) + j + 1]

\* C3 (P2, sentinel invariance): every position whose raw linkage value is
\* -1 holds -1 in the array a linkage reader returns.
C3_SentinelKept ==
    \A op \in DOMAIN LinkDataset : \A s \in SnapIds :
        LinkReturned(op, s) =>
            \A k \in Cores : \A j \in 0 .. (Count(s, k) - 1) :
                Raw(op, s, k, j) = 0 - 1 => Out(s, k, j) = 0 - 1

\* A sentinel stored by a core whose offset in the target snapshot is not 0.
C3_Witness ==
    \E op \in DOMAIN LinkDataset : \E s \in SnapIds :
        /\ LinkReturned(op, s)
        /\ \E k \in Cores : \E j \in 0 .. (Count(s, k) - 1) :
              /\ Raw(op, s, k, j) = 0 - 1
              /\ PrefixOffset(LinkTarget(op, s), k) > 0
              /\ Out(s, k, j) = 0 - 1

\* C4 (P3, range validity): every value of a returned linkage array other
\* than -1 lies in [0, N_target), N_target being the number of records of
\* the target snapshot; a value that would not is surfaced as an error.
C4_RangeValid ==
    \A op \in DOMAIN LinkDataset : \A s \in SnapIds :
        LinkReturned(op, s) =>
            \A i \in DOMAIN result.value :
                \/ result.value[i] = 0 - 1
                \/ (result.value[i] >= 0 /\ result.value[i] < Total(LinkTarget(op, s)))

\* C5 (cross-snapshot rebasing): read_firstprogenitor_indices and
\* read_descendant_indices return a raw value r > -1 of core k as r plus
\* core k's prefix offset in the target snapshot (s - 1, s + 1).
C5_CrossSnapshotOffset ==
    \A op \in {"read_firstprogenitor_indices", "read_descendant_indices"} :
        \A s \in SnapIds :
            LinkReturned(op, s) =>
                \A k \in Cores : \A j \in 0 .. (Count(s, k) - 1) :
                    Raw(op, s, k, j) > 0 - 1 =>
                        Out(s, k, j) = Raw(op, s, k, j) + PrefixOffset(LinkTarget(op, s), k)

\* A linked value of a core whose prefix offset in the target snapshot
\* differs from its prefix offset in the current one.
C5_Witness ==
    \E op \in {"read_firstprogenitor_indices", "read_descendant_indices"} :
        \E s \in SnapIds :
            /\ LinkReturned(op, s)
            /\ \E k \in Cores : \E j \in 0 .. (Count(s, k) - 1) :
                  /\ Raw(op, s, k, j) > 0 - 1
                  /\ PrefixOffset(LinkTarget(op, s), k) > 0
                  /\ PrefixOffset(LinkTarget(op, s), k) # PrefixOffset(s, k)
                  /\ Out(s, k, j) = Raw(op, s, k, j) + PrefixOffset(LinkTarget(op, s), k)

\* C6 (same-snapshot rebasing): read_nextprogenitor_indices returns a raw
\* value r > -1 of core k as r plus core k's prefix offset in the snapshot
\* read.
C6_SameSnapshotOffset ==
    \A s \in SnapIds :
        LinkReturned("read_nextprogenitor_indices", s) =>
            \A k \in Cores : \A j \in 0 .. (Count(s, k) - 1) :
                Raw("read_nextprogenitor_indices", s, k, j) > 0 - 1 =>
                    Out(s, k, j) = Raw("read_nextprogenitor_indices", s, k, j)
                                       + PrefixOffset(s, k)

\* A linked value of a core that follows a non-empty core.
C6_Witness ==
    \E s \in SnapIds :
        /\ LinkReturned("read_nextprogenitor_indices", s)
        /\ \E k \in Cores : \E j \in 0 .. (Count(s, k) - 1) :
              /\ Raw("read_nextprogenitor_indices", s, k, j) > 0 - 1
              /\ PrefixOffset(s, k) > 0
              /\ Out(s, k, j) = Raw("read_nextprogenitor_indices", s, k, j)
                                    + PrefixOffset(s, k)


\* --------------------------------------------------- claims, second series
\* The snapshot a finished read_gals or grab_redshift call has read, as its
\* result shows: the snapshot of the first record, the snapshot that has the
\* returned redshift
SnapRead ==
    IF call.op = "read_gals" THEN result.value[1].ID[1]
    ELSE MaxSnap - result.value[1]

\* The i-th largest present snapshot number, i >= 1
FromEnd(i) ==
    CHOOSE x \in DOMAIN file.snaps :
        Cardinality({y \in DOMAIN file.snaps : y > x}) = i - 1

\* C11 (snapshot resolution): read_gals and grab_redshift read, for a
\* negative snapshot s (None being -1 in read_gals), the (-s)-th largest
\* present snapshot number, whatever gaps the snapshot list has and with the
\* groups that are no snapshots present; they fail when there are fewer than
\* -s snapshots; a non-negative snapshot is looked up unchanged.
C11_SnapshotResolution ==
    (pc = "done" /\ call.op \in {"read_gals", "grab_redshift"}) =>
        LET s0 == IF call.snapshot = None THEN 0 - 1 ELSE Val(call.snapshot)
            n == Cardinality(DOMAIN file.snaps)
        IN  IF s0 >= 0
            THEN IF Present(s0) THEN result.status = "ok" /\ SnapRead = s0
                 ELSE result.status = "error"
            ELSE IF 0 - s0 <= n
                 THEN result.status = "ok" /\ SnapRead = FromEnd(0 - s0)
                 ELSE result.status = "error"

\* read_gals(snapshot=-2) on a file whose snapshots are not 0, 1, 2, ...:
\* the second largest number is read, which is not count - 2.
C11_Witness ==
    /\ pc = "done" /\ call.op = "read_gals" /\ call.snapshot = Some(0 - 2)
    /\ DOMAIN file.snaps = {0, MaxSnap + 1, MaxSnap + 2}
    /\ result.status = "ok"
    /\ SnapRead = MaxSnap + 1


\* The readers whose buffers P5 speaks of: read_gals and the linkage readers
BufferReaders == {"read_gals"} \cup DOMAIN LinkDataset
\* The call that has exited repeats the call the caller kept
RepeatsKept ==
    /\ pc = "done"
    /\ past.kept # None
    /\ Val(past.kept).call = call
    /\ call.op \in BufferReaders

ClaimedH ==
    IF call.h # None THEN call.h
    ELSE IF past.last_h \in {None, Some(1)} THEN None
    ELSE past.last_h
\* A value divided (multiplied) by the claimed h
Over(v) == IF ClaimedH = None THEN v ELSE v \div Val(ClaimedH)
Times(v) == IF ClaimedH = None THEN v ELSE v * Val(ClaimedH)

RECURSIVE RunWithoutBreak(_, _)
\* The core loop continued from frame fr over every remaining core, the
\* `break` ignored
RunWithoutBreak(fr, snap_group) ==
    LET out == CoreBody(fr, snap_group.Core[fr.i_core].Galaxies)
    IN  IF out.error # "" \/ fr.i_core = NCores - 1 THEN out
        ELSE RunWithoutBreak([out.frame EXCEPT !.i_core = @ + 1], snap_group)

\* The selection of the running read_gals call is ascending, distinct and
\* within the table of its snapshot
SelectionInRange ==
    rg.indices # None =>
        /\ IsAscending(Val(rg.indices))
        /\ \A x \in Range(Val(rg.indices)) : x >= 0 /\ x < Total(rg.snapshot)
\* Core k of the running call's snapshot holds a requested record
HoldsRequested(k) ==
    IF rg.indices = None THEN Count(rg.snapshot, k) > 0
    ELSE \E x \in Range(Val(rg.indices)) :
            /\ x >= PrefixOffset(rg.snapshot, k)
            /\ x < PrefixOffset(rg.snapshot, k) + Count(rg.snapshot, k)

\* C14 (early exit): an iteration of the core loop starts only while
\* counter < ngals, on the cores before it having been visited and no other;
\* when the loop has ended, for indices=None or an ascending distinct
\* selection within [0, N), no core left unvisited holds a requested record
\* (any record, without selection), and running the loop over the remaining
\* cores would raise nothing and leave the buffer as it is.
C14_EarlyExit ==
    /\ pc = "loop" =>
          /\ rg.counter < rg.ngals
          /\ rg.visited = {k \in Cores : k < rg.i_core}
    /\ (pc = "end" /\ SelectionInRange) =>
          /\ \A k \in Cores \ rg.visited : ~HoldsRequested(k)
          /\ (rg.visited # {} /\ rg.i_core < NCores - 1) =>
                LET rest == RunWithoutBreak([rg EXCEPT !.i_core = @ + 1],
                                            SnapGroup(file, rg.snapshot))
                IN  rest.error = "" /\ rest.frame.G = rg.G

\* Selection [0, 1] over core sizes [2, 0, 2]: the loop stops after core 0
\* and leaves core 2, which holds records, unopened.
C14_Witness ==
    /\ pc = "end" /\ rg.indices = Some(<<0, 1>>)
    /\ Count(rg.snapshot, 0) = 2 /\ Count(rg.snapshot, 2) = 2
    /\ rg.visited = {0}
    /\ rg.counter = rg.ngals


\* Number of requested indices of the running call below global position t
RequestedBelow(t) == Cardinality({x \in Range(Val(rg.indices)) : x < t})
\* Number of requested indices that fall in core k
RequestedIn(k) ==
    RequestedBelow(PrefixOffset(rg.snapshot, k + 1))
        - RequestedBelow(PrefixOffset(rg.snapshot, k))
\* The cursors of the selection path as an iteration of the core loop
\* leaves them
CursorsConsistent ==
    /\ rg.total_read = PrefixOffset(rg.snapshot, Cardinality(rg.visited))
    /\ rg.counter = RequestedBelow(rg.total_read)
    /\ rg.counter <= rg.total_read
    /\ rg.counter <= rg.ngals
    /\ \A i \in DOMAIN rg.G : rg.G[i].w = (IF i <= rg.counter THEN 1 ELSE 0)

\* C15 (selection-path cursors): for an ascending list of distinct indices
\* within [0, N), every iteration of the core loop ends without error with
\* total_read the number of records of the cores visited so far, counter the
\* number of requested indices below total_read, counter <= total_read and
\* counter <= ngals; counter advances by exactly the number of requested
\* records of the current core (never decreases), and the slots written so
\* far are the first `counter` slots, each written once.
C15_SelectionCursors ==
    [][(pc = "loop" /\ rg.indices # None /\ SelectionInRange) =>
          /\ pc' \in {"loop", "end"}
          /\ rg'.visited = rg.visited \cup {rg.i_core}
          /\ rg'.counter = rg.counter + RequestedIn(rg.i_core)
          /\ rg'.counter >= rg.counter
          /\ CursorsConsistent']_vars

\* Selection [0, 1, 3] over core sizes [2, 0, 2] after its last iteration:
\* two records from core 0, none from the empty core 1, one from core 2.
C15_Witness ==
    /\ pc = "end" /\ rg.indices = Some(<<0, 1, 3>>)
    /\ Count(rg.snapshot, 0) = 2 /\ Count(rg.snapshot, 1) = 0
    /\ Count(rg.snapshot, 2) = 2
    /\ rg.visited = Cores
    /\ rg.total_read = 4 /\ rg.counter = 3


\* The core of snapshot s that holds global position g of its table
CoreOf(s, g) ==
    CHOOSE k \in Cores :
        g >= PrefixOffset(s, k) /\ g < PrefixOffset(s, k) + Count(s, k)
\* The on-disk record at global position g of snapshot s
OnDisk(s, g) ==
    file.snaps[s].Core[CoreOf(s, g)].Galaxies[g - PrefixOffset(s, CoreOf(s, g)) + 1]
\* The global position that output position p of the finished call shows
GlobalOf(p) == IF call.indices = None THEN p - 1 ELSE Val(call.indices)[p]

\* C16 (rebasing of the self-referential field): without selection and for
\* an ascending distinct selection within [0, N), every output record of
\* read_gals taken from core k has CentralGal equal to its on-disk value
\* plus the prefix offset of core k in the full table, and ID and Mvir equal
\* to their on-disk values; with props = ("ID",) the read completes without
\* error and returns the on-disk IDs.
C16_CentralGalRebased ==
    \A s \in SnapIds :
        (/\ GalsDoneOn(s) /\ Total(s) > 0
         /\ call.indices # None =>
               /\ IsAscending(Val(call.indices))
               /\ \A x \in Range(Val(call.indices)) : x >= 0 /\ x < Total(s)) =>
            /\ result.status = "ok"
            /\ \A p \in DOMAIN result.value :
                  LET g == GlobalOf(p)
                      disk == OnDisk(s, g)
                  IN  IF call.props = None
                      THEN result.value[p] =
                               [disk EXCEPT !.CentralGal =
                                                @ + PrefixOffset(s, CoreOf(s, g))]
                      ELSE result.value[p] = [ID |-> disk.ID]

\* Selection [3] over core sizes [2, 0, 2]: output position 0 shows local
\* record 1 of core 2, whose CentralGal 0 is rebased by the prefix offset 2,
\* not by its output position.
C16_Witness ==
    \E s \in SnapIds :
        /\ GalsDoneOn(s) /\ call.props = None /\ result.status = "ok"
        /\ Count(s, 0) = 2 /\ Count(s, 1) = 0 /\ Count(s, 2) = 2
        /\ call.indices = Some(<<3>>)
        /\ OnDisk(s, 3).CentralGal = 0
        /\ result.value[1].CentralGal = 2


\* The conversion the file gives for property n, evaluated on on-disk value
\* v with h: v itself when n has no entry, the entry is "None", or the
\* expression does not evaluate
OwnConversion(n, v, h) ==
    IF n \notin DOMAIN file.hconv THEN v
    ELSE IF file.hconv[n] = "v/h" THEN v \div h
    ELSE IF file.hconv[n] = "v*h" THEN v * h
    ELSE v
\* Property n has no usable conversion in the file
Degraded(n) == n \notin DOMAIN file.hconv \/ file.hconv[n] = "v/h.x"

\* C17 (degraded unit scaling): read_gals with an effective h returns, for
\* every order of the schema, every property scaled by its own conversion,
\* a property without entry in HubbleConversions or with an expression that
\* fails to evaluate keeping its on-disk values, with a diagnostic logged
\* for it.
C17_DegradedScaling ==
    (pc = "done" /\ call.op = "read_gals" /\ call.h # None) =>
        LET full == FullTable(Val(call.snapshot), AllFields)
        IN  /\ result.status = "ok"
            /\ Len(result.value) = Len(full)
            /\ \A p \in DOMAIN result.value : \A n \in {"CentralGal", "Mvir"} :
                  result.value[p][n] = OwnConversion(n, full[p][n], Val(call.h))
            /\ \A n \in AllFields :
                  Degraded(n) => \E e \in log : e[3] = n


\* C18 (linkage/table alignment): on a snapshot whose linkage datasets have
\* as many entries as the Galaxies datasets and whose NGalaxies is their
\* sum, each linkage reader returns NGalaxies entries without error, empty
\* cores included, and the entry at position p is the (rebased) linkage
\* value of the record that read_gals(indices=None) shows at position p of
\* the table.
C18_LinkageAligned ==
    \A op \in DOMAIN LinkDataset : \A s \in SnapIds :
        (/\ pc = "done" /\ call.op = op /\ call.snapshot = Some(s)
         /\ Present(s) /\ LinkTarget(op, s) \in DOMAIN file.snaps) =>
            LET full == FullTable(s, AllFields)
                t == LinkTarget(op, s)
            IN  /\ result.status = "ok"
                /\ Len(result.value) = file.snaps[s].NGalaxies
                /\ Len(result.value) = Len(full)
                /\ \A p \in DOMAIN result.value :
                      LET k == full[p].ID[2]
                          j == full[p].ID[3]
                      IN  /\ p = PrefixOffset(s, k) + j + 1
                          /\ result.value[p] =
                                IF Raw(op, s, k, j) = 0 - 1 THEN 0 - 1
                                ELSE Raw(op, s, k, j) + PrefixOffset(t, k)

\* Core sizes [2, 0, 2] with raw values 0 and -1 in every core: past the
\* empty core 1, positions 2 and 3 hold the two values of core 2, in on-disk
\* order, where the table holds its two records.
C18_Witness ==
    \E op \in DOMAIN LinkDataset : \E s \in SnapIds :
        /\ LinkReturned(op, s)
        /\ Count(s, 0) = 2 /\ Count(s, 1) = 0 /\ Count(s, 2) = 2
        /\ Raw(op, s, 2, 0) = 0 /\ Raw(op, s, 2, 1) = 0 - 1
        /\ FullTable(s, AllFields)[4].ID = <<s, 2, 1>>
        /\ result.value[3] = PrefixOffset(LinkTarget(op, s), 2)
        /\ result.value[4] = 0 - 1


\* C19 (selection normalisation): for an index list L within [0, N), in
\* any order and with repeats, read_gals(indices=L), if it returns, returns
\* Len(L) records, the record at output position j being the full-table
\* record at the j-th smallest element of L; the caller's list is as it was
\* passed.
C19_SelectionNormalised ==
    \A s \in SnapIds :
        (/\ GalsDoneOn(s) /\ call.indices # None
         /\ \A x \in Range(Val(call.indices)) : x >= 0 /\ x < Total(s)) =>
            LET L == Val(call.indices)
                full == FullTable(s, AllFields)
            IN  /\ past.caller_indices = call.indices
                /\ result.status = "ok" =>
                      /\ Len(result.value) = Len(L)
                      /\ \A j \in 1 .. Len(L) :
                            result.value[j] = full[Sort(L)[j] + 1]

\* L = [1, 0, 0] over three cores of one record each: the record at global
\* position 0 twice, then the record at position 1; L is still [1, 0, 0].
C19_Witness ==
    /\ GalsDoneOn(0) /\ result.status = "ok"
    /\ \A k \in 0 .. 2 : Count(0, k) = 1
    /\ call.indices = Some(<<1, 0, 0>>)
    /\ past.caller_indices = Some(<<1, 0, 0>>)
    /\ result.value[1].ID = <<0, 0, 0>>
    /\ result.value[2].ID = <<0, 0, 0>>
    /\ result.value[3].ID = <<0, 1, 0>>


\* C20 (snapshot list alignment): the three arrays read_snaplist returns
\* have the same length, position i of each describes the same snapshot
\* group, and only groups that have both the Redshift and the LTTime
\* attribute appear.
C20_SnaplistAligned ==
    (pc = "done" /\ call.op = "read_snaplist") =>
        LET snaplist == result.value[1]
            zlist == result.value[2]
            lt_times == result.value[3]
        IN  /\ Len(snaplist) = Len(zlist)
            /\ Len(snaplist) = Len(lt_times)
            /\ \A i \in DOMAIN snaplist :
                  /\ Present(snaplist[i])
                  /\ HasAttr(file, snaplist[i], "Redshift")
                  /\ HasAttr(file, snaplist[i], "LTTime")
                  /\ zlist[i] = file.snaps[snaplist[i]].Redshift
                  /\ lt_times[i] = Over(file.snaps[snaplist[i]].LTTime)

====
